---- MODULE Spec2Model ----
(***************************************************************************)
(* A model of oauth-tooling.ts: the request middleware                     *)
(* (handleOAuthRequestMiddleware), the scope middleware                    *)
(* (requireScopesMiddleware), token introspection (getTokenInfo) and token *)
(* acquisition (getAccessToken / requestAccessToken).                      *)
(*                                                                         *)
(* JavaScript objects are records; a property that is not there is a field *)
(* that is not in the record's DOMAIN.  A promise is a record              *)
(* [state, value].  One exported operation is followed per behaviour, from *)
(* its call through every callback of its promise chain.                   *)
(***************************************************************************)
EXTENDS Integers, Sequences, FiniteSets, TLC

VARIABLES
  pc,             \* position of the operation being followed
  mwOptions,      \* options handed to handleOAuthRequestMiddleware
  req,            \* the inbound request object (originalUrl, headers, scopes)
  reqAtEntry,     \* the request object as it was when the middleware was entered
  res,            \* the response object
  required,       \* the scopes handed to requireScopesMiddleware
  nextBehaviour,  \* what the downstream next handler does when called
  nextCalls,      \* number of calls of next
  rejections,     \* statuses of the rejectRequest calls, in order
  extractCalls,   \* number of calls of extractAccessToken
  tokenInfoCalls, \* access tokens of the getTokenInfo calls, in order
  infoResponse,   \* what the introspection endpoint answered
  infoPromise,    \* the promise returned by getTokenInfo
  chainError,     \* the rejection reason travelling down the middleware's chain
  tokenOptions,   \* options handed to getAccessToken
  userRead,       \* promise of getFileData(credentialsDir, USER_JSON)
  clientRead,     \* promise of getFileData(credentialsDir, CLIENT_JSON)
  allPromise,     \* the promise of Promise.all([userRead, clientRead])
  posts,          \* the POST requests issued to accessTokenEndpoint, in order
  tokenResponse,  \* what the token endpoint answered
  tokenPromise,   \* the promise returned by getAccessToken
  syncThrow       \* the error an operation threw synchronously to its caller

vars == <<pc, mwOptions, req, reqAtEntry, res, required, nextBehaviour, nextCalls,
          rejections, extractCalls, tokenInfoCalls, infoResponse, infoPromise,
          chainError, tokenOptions, userRead, clientRead, allPromise, posts,
          tokenResponse, tokenPromise, syncThrow>>

mwVars    == <<mwOptions, req, reqAtEntry, res, required, nextBehaviour, nextCalls,
               rejections, extractCalls, tokenInfoCalls, infoResponse, infoPromise,
               chainError>>
tokenVars == <<tokenOptions, userRead, clientRead, allPromise, posts,
               tokenResponse, tokenPromise>>

-----------------------------------------------------------------------------
(* Bounds of the model *)

MaxScopeLen == 2
MaxPatterns == 2

(* Program constants *)

OK           == 200
UNAUTHORIZED == 401
FORBIDDEN    == 403

PASSWORD_CREDENTIALS_GRANT == "password"
AUTHORIZATION_CODE_GRANT   == "authorization_code"
AUTHORIZATION_HEADER_FIELD_NAME == "authorization"
USER_JSON   == "user.json"
CLIENT_JSON == "client.json"
OAUTH_CONTENT_TYPE == "application/x-www-form-urlencoded"

-----------------------------------------------------------------------------
(* Values *)

SeqsUpTo(S, n) == UNION {[1..k -> S] : k \in 0..n}

None    == [some |-> FALSE]
Some(v) == [some |-> TRUE, v |-> v]

Undefined == [undefined |-> TRUE]

Pending      == [state |-> "pending"]
Fulfilled(v) == [state |-> "fulfilled", value |-> v]
Rejected(e)  == [state |-> "rejected", value |-> e]

HasProp(obj, k) == k \in DOMAIN obj

TypeError(m) == [name |-> "TypeError", message |-> m]
SyntaxError  == [name |-> "SyntaxError"]
FetchError   == [name |-> "FetchError"]
FileError    == [name |-> "Error", code |-> "ENOENT"]
NextError    == [name |-> "Error", message |-> "downstream handler failed"]

ScopeNames == {"read", "write", "admin"}
ScopeLists == SeqsUpTo(ScopeNames, MaxScopeLen)


-----------------------------------------------------------------------------
(* HTTP responses of the two endpoints *)

JsonBody(v) == [json |-> TRUE, value |-> v]
TextBody(t) == [json |-> FALSE, text |-> t]

TransportFailure == [kind |-> "transport"]
Response(s, b)   == [kind |-> "response", status |-> s, body |-> b]

Statuses == {OK, UNAUTHORIZED, 500}

\* response.json(): the parsed body, or a rejection when the body is no JSON
json(body) ==
  IF body.json THEN Fulfilled(body.value) ELSE Rejected(SyntaxError)

InfoBodies ==
  {JsonBody([scope |-> l, uid |-> "user"]) : l \in ScopeLists}
    \cup {JsonBody([error |-> "invalid_request"]), TextBody("Unauthorized")}

InfoResponses ==
  {TransportFailure} \cup {Response(s, b) : s \in Statuses, b \in InfoBodies}

-----------------------------------------------------------------------------
(* Collaborators imported from ./utils *)

IsPrefix(p, u) == Len(p) <= Len(u) /\ SubSeq(u, 1, Len(p)) = p

\* match(url, patterns): some pattern of the list matches the url
match(url, patterns) == \E i \in DOMAIN patterns : IsPrefix(patterns[i], url)

\* getHeaderValue(req, fieldName): the header's value, or undefined
getHeaderValue(r, fieldName) ==
  IF HasProp(r.headers, fieldName) THEN Some(r.headers[fieldName]) ELSE None

\* extractAccessToken(authHeader): the token of a "Bearer <token>" header value,
\* undefined for an absent or malformed header
extractAccessToken(authHeader) ==
  IF authHeader.some /\ Len(authHeader.v) = 2 /\ authHeader.v[1] = "Bearer"
  THEN Some(authHeader.v[2])
  ELSE None

\* a test for undefined alone, where the code tests for any falsy value
Falsy_UndefinedOnly(x) == ~x.some

\* !accessToken
Falsy(x) == ~x.some \/ x.v = ""

\* rejectRequest(res, status = UNAUTHORIZED): set the status and end the response
rejectRequest(status) ==
  LET s == IF status.some THEN status.v ELSE UNAUTHORIZED IN
  /\ res' = [statusCode |-> s, ended |-> TRUE]
  /\ rejections' = Append(rejections, s)

\* err.status as the argument of rejectRequest
StatusOf(err) == IF HasProp(err, "status") THEN Some(err.status) ELSE None

-----------------------------------------------------------------------------
(* getTokenInfo, lines 105-134: the settlement of the returned promise, given *)
(* what fetch produced                                                       *)

Wrap(m, e) == [msg |-> m, err |-> e]

getTokenInfo(response) ==
  IF response.kind = "transport"
  THEN Rejected(Wrap("Error requesting tokeninfo", FetchError))
  ELSE LET status == response.status
           parsed == json(response.body)
       IN  IF parsed.state = "rejected"
           THEN Rejected(Wrap("Error requesting tokeninfo", parsed.value))
           ELSE IF response.status # OK
                THEN \* throw { status, data }, caught by the .catch below it
                     Rejected(Wrap("Error requesting tokeninfo",
                                   [status |-> status, data |-> parsed.value]))
                ELSE Fulfilled(parsed.value)

-----------------------------------------------------------------------------
(* handleOAuthRequestMiddleware, lines 244-271 *)

Urls     == {<<"health">>, <<"health", "api">>, <<"api", "users">>, <<"users">>}
Patterns == {<<"health">>, <<"api", "users">>}

MwOptions ==
  {[tokenInfoEndpoint |-> t, publicEndpoints |-> p] :
     t \in {None, Some("http://auth/tokeninfo")},
     p \in {None} \cup {Some(l) : l \in SeqsUpTo(Patterns, MaxPatterns)}}

HeaderValues == {<<"Bearer", "tok1">>, <<"Bearer", "">>, <<"Bearer">>,
                 <<"Basic", "tok1">>}
Headers == {[host |-> "svc"]}
             \cup {[host |-> "svc", authorization |-> h] : h \in HeaderValues}

Requests == {[originalUrl |-> u, headers |-> h, scopes |-> None] :
               u \in Urls, h \in Headers}

NextBehaviours == {"returns", "throws"}

NoRequest == [originalUrl |-> <<>>, headers |-> [host |-> "svc"], scopes |-> None]

\* lines 244-250: construction throws when tokenInfoEndpoint is missing
handleOAuthRequestMiddleware(options) ==
  /\ pc = "idle"
  /\ mwOptions' = options
  /\ IF ~options.tokenInfoEndpoint.some
     THEN /\ syncThrow' = Some(TypeError("tokenInfoEndpoint must be defined"))
          /\ pc' = "mw_ctor_thrown"
     ELSE /\ pc' = "mw_ready"
          /\ UNCHANGED syncThrow
  /\ UNCHANGED <<req, reqAtEntry, res, required, nextBehaviour, nextCalls,
                 rejections, extractCalls, tokenInfoCalls, infoResponse,
                 infoPromise, chainError>>
  /\ UNCHANGED tokenVars

\* a match against the first public pattern alone
IsPublic_FirstPatternOnly(options, r) ==
  /\ options.publicEndpoints.some
  /\ options.publicEndpoints.v # <<>>
  /\ match(r.originalUrl, <<options.publicEndpoints.v[1]>>)

\* line 253: options.publicEndpoints && match(req.originalUrl, options.publicEndpoints)
IsPublic(options, r) ==
  options.publicEndpoints.some /\ match(r.originalUrl, options.publicEndpoints.v)

\* lines 250-270, the synchronous part of the returned middleware
OAuthMiddleware(r, nb) ==
  /\ pc = "mw_ready"
  /\ req' = r
  /\ reqAtEntry' = r
  /\ nextBehaviour' = nb
  /\ IF IsPublic(mwOptions, r)
     THEN \* return next()
          /\ nextCalls' = nextCalls + 1
          /\ syncThrow' = IF nb = "throws" THEN Some(NextError) ELSE None
          /\ pc' = "mw_done"
          /\ UNCHANGED <<res, rejections, extractCalls, tokenInfoCalls, infoPromise>>
     ELSE LET accessToken ==
                extractAccessToken(getHeaderValue(r, AUTHORIZATION_HEADER_FIELD_NAME))
          IN  /\ extractCalls' = extractCalls + 1
              /\ IF Falsy(accessToken)
                 THEN /\ rejectRequest(None)
                      /\ pc' = "mw_done"
                      /\ UNCHANGED <<tokenInfoCalls, infoPromise>>
                 ELSE /\ tokenInfoCalls' = Append(tokenInfoCalls, accessToken.v)
                      /\ infoPromise' = Pending
                      /\ pc' = "mw_fetching"
                      /\ UNCHANGED <<res, rejections>>
              /\ UNCHANGED <<nextCalls, syncThrow>>
  /\ UNCHANGED <<mwOptions, required, infoResponse, chainError>>
  /\ UNCHANGED tokenVars

\* lines 109-130: the introspection endpoint answers and getTokenInfo's promise settles
TokenInfoSettles(response) ==
  /\ pc = "mw_fetching"
  /\ infoResponse' = Some(response)
  /\ infoPromise' = getTokenInfo(response)
  /\ pc' = "mw_settled"
  /\ UNCHANGED <<mwOptions, req, reqAtEntry, res, required, nextBehaviour, nextCalls,
                 rejections, extractCalls, tokenInfoCalls, chainError, syncThrow>>
  /\ UNCHANGED tokenVars

\* setScopes(req)(data) of ./utils: attach the scopes of the token info to the request.
\* A token info without scopes either attaches nothing or makes the callback throw.
setScopes(data, throwsWithoutScope) ==
  IF HasProp(data, "scope")
  THEN /\ req' = [req EXCEPT !.scopes = Some(data.scope)]
       /\ pc' = "mw_scopes_set"
       /\ UNCHANGED chainError
  ELSE IF throwsWithoutScope
       THEN /\ chainError' = Some(TypeError("scope of undefined"))
            /\ pc' = "mw_catch"
            /\ UNCHANGED req
       ELSE /\ pc' = "mw_scopes_set"
            /\ UNCHANGED <<req, chainError>>

\* line 262: .then(setScopes(req))
ThenSetScopes(throwsWithoutScope) ==
  /\ pc = "mw_settled"
  /\ infoPromise.state = "fulfilled"
  /\ setScopes(infoPromise.value, throwsWithoutScope)
  /\ UNCHANGED <<mwOptions, reqAtEntry, res, required, nextBehaviour, nextCalls,
                 rejections, extractCalls, tokenInfoCalls, infoResponse, infoPromise,
                 syncThrow>>
  /\ UNCHANGED tokenVars

\* lines 262-266: a rejected getTokenInfo skips both .then callbacks
ChainRejected ==
  /\ pc = "mw_settled"
  /\ infoPromise.state = "rejected"
  /\ chainError' = Some(infoPromise.value)
  /\ pc' = "mw_catch"
  /\ UNCHANGED <<mwOptions, req, reqAtEntry, res, required, nextBehaviour, nextCalls,
                 rejections, extractCalls, tokenInfoCalls, infoResponse, infoPromise,
                 syncThrow>>
  /\ UNCHANGED tokenVars

\* lines 263-265: .then(() => { next(); })
ThenNext ==
  /\ pc = "mw_scopes_set"
  /\ nextCalls' = nextCalls + 1
  /\ IF nextBehaviour = "throws"
     THEN /\ chainError' = Some(NextError)
          /\ pc' = "mw_catch"
     ELSE /\ pc' = "mw_done"
          /\ UNCHANGED chainError
  /\ UNCHANGED <<mwOptions, req, reqAtEntry, res, required, nextBehaviour,
                 rejections, extractCalls, tokenInfoCalls, infoResponse, infoPromise,
                 syncThrow>>
  /\ UNCHANGED tokenVars

\* lines 266-268: .catch((err) => { rejectRequest(res, err.status); })
CatchReject ==
  /\ pc = "mw_catch"
  /\ rejectRequest(StatusOf(chainError.v))
  /\ pc' = "mw_done"
  /\ UNCHANGED <<mwOptions, req, reqAtEntry, required, nextBehaviour, nextCalls,
                 extractCalls, tokenInfoCalls, infoResponse, infoPromise, chainError,
                 syncThrow>>
  /\ UNCHANGED tokenVars


-----------------------------------------------------------------------------
(* requireScopesMiddleware, lines 210-227 *)

RequiredLists == {None} \cup {Some(l) : l \in ScopeLists}

ScopedRequests ==
  {[originalUrl |-> <<"api", "users">>, headers |-> [host |-> "svc"], scopes |-> s] :
     s \in {None} \cup {Some(l) : l \in ScopeLists}}

\* x || []
OrEmpty(x) == IF x.some THEN x.v ELSE <<>>

\* new Set(list)
NewSet(list) == {list[i] : i \in DOMAIN list}

\* lines 217-219: for (let scope of userScopes) { scopesCopy.delete(scope); }
RECURSIVE DeleteEach(_, _)
DeleteEach(set, list) ==
  IF list = <<>> THEN set
  ELSE DeleteEach(set \ {Head(list)}, Tail(list))

\* the deletion the other way round: the required scopes deleted from the user's
scopesCopy_Swapped(scopes, r) == DeleteEach(NewSet(OrEmpty(r.scopes)), OrEmpty(scopes))

\* lines 213-221: the required scopes left over once the user's scopes are deleted
scopesCopy(scopes, r) == DeleteEach(NewSet(OrEmpty(scopes)), OrEmpty(r.scopes))

\* line 210: requireScopesMiddleware(scopes) returns the middleware
requireScopesMiddleware(scopes) ==
  /\ pc = "idle"
  /\ required' = scopes
  /\ pc' = "scopes_ready"
  /\ UNCHANGED <<mwOptions, req, reqAtEntry, res, nextBehaviour, nextCalls,
                 rejections, extractCalls, tokenInfoCalls, infoResponse, infoPromise,
                 chainError, syncThrow>>
  /\ UNCHANGED tokenVars

\* lines 211-226: the returned middleware handles a request
ScopesMiddleware(r, nb) ==
  /\ pc = "scopes_ready"
  /\ req' = r
  /\ reqAtEntry' = r
  /\ nextBehaviour' = nb
  /\ IF Cardinality(scopesCopy(required, r)) = 0
     THEN /\ nextCalls' = nextCalls + 1
          /\ syncThrow' = IF nb = "throws" THEN Some(NextError) ELSE None
          /\ UNCHANGED <<res, rejections>>
     ELSE /\ rejectRequest(Some(FORBIDDEN))
          /\ UNCHANGED <<nextCalls, syncThrow>>
  /\ pc' = "scopes_done"
  /\ UNCHANGED <<mwOptions, required, extractCalls, tokenInfoCalls, infoResponse,
                 infoPromise, chainError>>
  /\ UNCHANGED tokenVars

-----------------------------------------------------------------------------
(* getAccessToken and requestAccessToken, lines 57-94 and 160-197 *)

GrantTypes == {None, Some(PASSWORD_CREDENTIALS_GRANT), Some(AUTHORIZATION_CODE_GRANT),
               Some("implicit")}

TokenOptions ==
  {[grantType |-> g, scopes |-> s, code |-> c, redirectUri |-> c, complete |-> b] :
     g \in GrantTypes,
     s \in {None, Some(<<"read">>), Some(<<"read", "write">>)},
     c \in {None, Some("code1")},
     b \in BOOLEAN}

Recognized(options) ==
  options.grantType \in {Some(PASSWORD_CREDENTIALS_GRANT), Some(AUTHORIZATION_CODE_GRANT)}

\* validateOAuthConfig(options) of ./utils throws when a mandatory field is missing:
\* credentialsDir, accessTokenEndpoint, realm (complete), grantType, and code and
\* redirectUri for the authorization code grant.  strict: whether it also refuses an
\* unrecognized grantType and a password grant without scopes.
validateOAuthConfig(options, strict) ==
  \/ ~options.complete
  \/ ~options.grantType.some
  \/ /\ options.grantType = Some(AUTHORIZATION_CODE_GRANT)
     /\ ~options.code.some
  \/ /\ strict
     /\ \/ ~Recognized(options)
        \/ options.grantType = Some(PASSWORD_CREDENTIALS_GRANT) /\ ~options.scopes.some

UserDocument   == [application_username |-> "user", application_password |-> "pass"]
ClientDocument == [client_id |-> "client", client_secret |-> "secret"]

WellFormed(doc) == [wellFormed |-> TRUE, value |-> doc]
Malformed       == [wellFormed |-> FALSE]

\* JSON.parse(text): the document, or a SyntaxError (also for what is no text)
JSONparse(text) ==
  IF HasProp(text, "wellFormed") /\ text.wellFormed THEN Fulfilled(text.value) ELSE Rejected(SyntaxError)

\* getFileData(dir, file) of ./utils: the file's content, or the read's error
FileResults(file) ==
  {Fulfilled(WellFormed(IF file = USER_JSON THEN UserDocument ELSE ClientDocument)),
   Fulfilled(Malformed),
   Rejected(FileError)}

NotStarted == [state |-> "none"]

\* a Promise.all that waits for the first read alone
PromiseAll_FirstOnly(all, u, c) ==
  IF all.state # "pending" THEN all
  ELSE IF u.state = "rejected" THEN Rejected(u.value)
  ELSE IF u.state = "fulfilled"
       THEN Fulfilled(<<u.value, IF c.state = "fulfilled" THEN c.value ELSE Undefined>>)
       ELSE Pending

\* Promise.all([userRead, clientRead]), lines 164-167: once settled it stays settled;
\* it rejects with the first rejection and fulfils when both reads have
PromiseAll(all, u, c) ==
  IF all.state # "pending" THEN all
  ELSE IF u.state = "rejected" THEN Rejected(u.value)
  ELSE IF c.state = "rejected" THEN Rejected(c.value)
  ELSE IF u.state = "fulfilled" /\ c.state = "fulfilled"
       THEN Fulfilled(<<u.value, c.value>>)
       ELSE Pending

\* scopes.join(' ')
RECURSIVE join(_)
join(list) ==
  IF Len(list) <= 1 THEN list
  ELSE <<Head(list), " ">> \o join(Tail(list))

\* getBasicAuthHeaderValue(clientId, clientSecret) of ./utils
getBasicAuthHeaderValue(clientId, clientSecret) ==
  <<"Basic", [base64 |-> <<clientId, ":", clientSecret>>]>>

TokenBodies ==
  {JsonBody([access_token |-> "4b70510f"]),
   JsonBody([access_token |-> "4b70510f", expires_in |-> "3600"]),
   JsonBody([error |-> "invalid_client"]),
   TextBody("Unauthorized")}

TokenResponses ==
  {TransportFailure} \cup {Response(s, b) : s \in Statuses, b \in TokenBodies}

\* a settlement that resolves with the token taken out of the body, as the
\* comment of lines 48-49 describes it
requestAccessToken_ExtractsToken(response) ==
  IF response.kind = "transport"
  THEN Rejected(Wrap("Error requesting access token", FetchError))
  ELSE LET status == response.status
           parsed == json(response.body)
       IN  IF parsed.state = "rejected"
           THEN Rejected(Wrap("Error requesting access token", parsed.value))
           ELSE IF response.status # OK
                THEN Rejected(Wrap("Error requesting access token",
                                   [status |-> status, data |-> parsed.value]))
                ELSE IF HasProp(parsed.value, "access_token")
                     THEN Fulfilled([accessToken |-> parsed.value.access_token])
                     ELSE Fulfilled(Undefined)

\* requestAccessToken, lines 70-90: the settlement of the returned promise, given what
\* fetch produced
requestAccessToken(response) ==
  IF response.kind = "transport"
  THEN Rejected(Wrap("Error requesting access token", FetchError))
  ELSE LET status == response.status
           parsed == json(response.body)
       IN  IF parsed.state = "rejected"
           THEN Rejected(Wrap("Error requesting access token", parsed.value))
           ELSE IF response.status # OK
                THEN \* throw { status, data }, caught by the .catch below it
                     Rejected(Wrap("Error requesting access token",
                                   [status |-> status, data |-> parsed.value]))
                ELSE Fulfilled(parsed.value)

\* lines 160-167: validate the options, then start both credential reads
getAccessToken(options, strict) ==
  /\ pc = "idle"
  /\ tokenOptions' = options
  /\ IF validateOAuthConfig(options, strict)
     THEN /\ syncThrow' = Some(TypeError("invalid configuration"))
          /\ pc' = "token_thrown"
          /\ UNCHANGED <<userRead, clientRead, allPromise, tokenPromise>>
     ELSE /\ userRead' = Pending
          /\ clientRead' = Pending
          /\ allPromise' = Pending
          /\ tokenPromise' = Pending
          /\ pc' = "token_reading"
          /\ UNCHANGED syncThrow
  /\ UNCHANGED <<posts, tokenResponse>>
  /\ UNCHANGED mwVars

TokenPcs == {"token_reading", "token_posting", "token_done"}

\* line 165: the read of user.json completes
UserReadSettles(result) ==
  /\ pc \in TokenPcs
  /\ userRead.state = "pending"
  /\ userRead' = result
  /\ allPromise' = PromiseAll(allPromise, result, clientRead)
  /\ UNCHANGED <<pc, tokenOptions, clientRead, posts, tokenResponse, tokenPromise,
                 syncThrow>>
  /\ UNCHANGED mwVars

\* line 166: the read of client.json completes
ClientReadSettles(result) ==
  /\ pc \in TokenPcs
  /\ clientRead.state = "pending"
  /\ clientRead' = result
  /\ allPromise' = PromiseAll(allPromise, userRead, result)
  /\ UNCHANGED <<pc, tokenOptions, userRead, posts, tokenResponse, tokenPromise,
                 syncThrow>>
  /\ UNCHANGED mwVars

\* a body that leaves out the else branch of lines 188-190
bodyParameters_NoElse(options, userData) ==
  IF options.grantType = Some(PASSWORD_CREDENTIALS_GRANT) /\ ~options.scopes.some
  THEN Rejected(TypeError("join of undefined"))
  ELSE IF options.grantType = Some(PASSWORD_CREDENTIALS_GRANT)
  THEN Fulfilled([grant_type |-> options.grantType.v,
                  username |-> userData.application_username,
                  password |-> userData.application_password,
                  scope |-> join(options.scopes.v)])
  ELSE Fulfilled([grant_type |-> options.grantType.v,
                  code |-> options.code,
                  redirect_uri |-> options.redirectUri])

\* lines 173-190: the body for the grant type, or the error thrown
bodyParameters(options, userData) ==
  IF options.grantType = Some(PASSWORD_CREDENTIALS_GRANT)
  THEN IF ~options.scopes.some
       THEN Rejected(TypeError("join of undefined"))
       ELSE Fulfilled([grant_type |-> options.grantType.v,
                       username |-> userData.application_username,
                       password |-> userData.application_password,
                       scope |-> join(options.scopes.v)])
  ELSE IF options.grantType = Some(AUTHORIZATION_CODE_GRANT)
  THEN Fulfilled([grant_type |-> options.grantType.v,
                  code |-> options.code,
                  redirect_uri |-> options.redirectUri])
  ELSE Rejected(TypeError("invalid grantType"))

\* lines 170-195: what the .then callback computes from the credentials: the request
\* to post, or the error it throws
BuildRequest(options, credentials) ==
  LET userData   == JSONparse(credentials[1])
      clientData == JSONparse(credentials[2])
  IN  IF userData.state = "rejected" THEN Rejected(userData.value)
      ELSE IF clientData.state = "rejected" THEN Rejected(clientData.value)
      ELSE LET body == bodyParameters(options, userData.value)
               authorizationHeaderValue ==
                 getBasicAuthHeaderValue(clientData.value.client_id,
                                         clientData.value.client_secret)
           IN  IF body.state = "rejected" THEN Rejected(body.value)
               ELSE Fulfilled([method |-> "POST",
                               authorization |-> authorizationHeaderValue,
                               contentType |-> OAUTH_CONTENT_TYPE,
                               body |-> body.value])

\* lines 168-196: the .then callback of Promise.all runs once both reads are in
ThenCredentials ==
  /\ pc = "token_reading"
  /\ allPromise.state = "fulfilled"
  /\ LET request == BuildRequest(tokenOptions, allPromise.value)
     IN  IF request.state = "rejected"
         THEN /\ tokenPromise' = Rejected(request.value)
              /\ pc' = "token_done"
              /\ UNCHANGED posts
         ELSE /\ posts' = Append(posts, request.value)
              /\ pc' = "token_posting"
              /\ UNCHANGED tokenPromise
  /\ UNCHANGED <<tokenOptions, userRead, clientRead, allPromise, tokenResponse,
                 syncThrow>>
  /\ UNCHANGED mwVars

\* lines 164-168: a rejected Promise.all skips the .then callback
AllRejected ==
  /\ pc = "token_reading"
  /\ allPromise.state = "rejected"
  /\ tokenPromise' = Rejected(allPromise.value)
  /\ pc' = "token_done"
  /\ UNCHANGED <<tokenOptions, userRead, clientRead, allPromise, posts,
                 tokenResponse, syncThrow>>
  /\ UNCHANGED mwVars

\* lines 62-90 and 194: the token endpoint answers and the returned promise settles
TokenEndpointAnswers(response) ==
  /\ pc = "token_posting"
  /\ tokenResponse' = Some(response)
  /\ tokenPromise' = requestAccessToken(response)
  /\ pc' = "token_done"
  /\ UNCHANGED <<tokenOptions, userRead, clientRead, allPromise, posts, syncThrow>>
  /\ UNCHANGED mwVars

\* getAccessToken(options).then((token) => { return token; }), as the callers do
bearer ==
  IF tokenPromise.state = "fulfilled" THEN Fulfilled(tokenPromise.value)
  ELSE tokenPromise

-----------------------------------------------------------------------------

Init ==
  /\ pc = "idle"
  /\ mwOptions = [tokenInfoEndpoint |-> None, publicEndpoints |-> None]
  /\ req = NoRequest
  /\ reqAtEntry = NoRequest
  /\ res = [statusCode |-> OK, ended |-> FALSE]
  /\ required = None
  /\ nextBehaviour = "returns"
  /\ nextCalls = 0
  /\ rejections = <<>>
  /\ extractCalls = 0
  /\ tokenInfoCalls = <<>>
  /\ infoResponse = None
  /\ infoPromise = NotStarted
  /\ chainError = None
  /\ tokenOptions = [grantType |-> None, scopes |-> None, code |-> None,
                     redirectUri |-> None, complete |-> FALSE]
  /\ userRead = NotStarted
  /\ clientRead = NotStarted
  /\ allPromise = NotStarted
  /\ posts = <<>>
  /\ tokenResponse = None
  /\ tokenPromise = NotStarted
  /\ syncThrow = None

Next ==
  \/ \E o \in MwOptions : handleOAuthRequestMiddleware(o)
  \/ \E r \in Requests, nb \in NextBehaviours : OAuthMiddleware(r, nb)
  \/ \E response \in InfoResponses : TokenInfoSettles(response)
  \/ \E t \in BOOLEAN : ThenSetScopes(t)
  \/ ChainRejected
  \/ ThenNext
  \/ CatchReject
  \/ \E scopes \in RequiredLists : requireScopesMiddleware(scopes)
  \/ \E r \in ScopedRequests, nb \in NextBehaviours : ScopesMiddleware(r, nb)
  \/ \E o \in TokenOptions, strict \in BOOLEAN : getAccessToken(o, strict)
  \/ \E result \in FileResults(USER_JSON) : UserReadSettles(result)
  \/ \E result \in FileResults(CLIENT_JSON) : ClientReadSettles(result)
  \/ ThenCredentials
  \/ AllRejected
  \/ \E response \in TokenResponses : TokenEndpointAnswers(response)

Spec == Init /\ [][Next]_vars


-----------------------------------------------------------------------------
(* The claims *)

MwHandled == {"mw_fetching", "mw_settled", "mw_scopes_set", "mw_catch", "mw_done"}

\* the introspection endpoint answered with a status other than 200 and a JSON body
InfoNon200 ==
  /\ infoResponse.some
  /\ infoResponse.v.kind = "response"
  /\ infoResponse.v.status # OK
  /\ infoResponse.v.body.json

\* the token endpoint answered with a status other than 200 and a JSON body
TokenNon200 ==
  /\ tokenResponse.some
  /\ tokenResponse.v.kind = "response"
  /\ tokenResponse.v.status # OK
  /\ tokenResponse.v.body.json

\* C1: when introspection fails because the endpoint answered with a non-200
\* status S, the middleware rejects the request with that status S.
C1_RejectsWithUpstreamStatus ==
  (pc = "mw_done" /\ InfoNon200) => rejections = <<infoResponse.v.status>>

\* {status, data} with the status and the parsed body of the response
IsUpstreamRejection(promise, response) ==
  /\ promise.state = "rejected"
  /\ HasProp(promise.value, "status")
  /\ promise.value.status = response.status
  /\ HasProp(promise.value, "data")
  /\ promise.value.data = response.body.value

\* C2: whenever the token endpoint or the introspection endpoint answers with a
\* status other than 200, the returned promise is rejected with {status, data}:
\* the response's status and its parsed body.
C2_RejectsWithStatusAndData ==
  /\ InfoNon200 => IsUpstreamRejection(infoPromise, infoResponse.v)
  /\ TokenNon200 => IsUpstreamRejection(tokenPromise, tokenResponse.v)

\* the request's path matches one of the configured public patterns
PathIsPublic ==
  /\ mwOptions.publicEndpoints.some
  /\ \E i \in DOMAIN mwOptions.publicEndpoints.v :
       IsPrefix(mwOptions.publicEndpoints.v[i], reqAtEntry.originalUrl)

\* the request's authorization header is absent or yields no bearer token
NoBearerToken ==
  \/ ~HasProp(reqAtEntry.headers, AUTHORIZATION_HEADER_FIELD_NAME)
  \/ LET t == extractAccessToken(Some(reqAtEntry.headers[AUTHORIZATION_HEADER_FIELD_NAME]))
     IN  ~t.some \/ t.v = ""

\* C3: a request whose path is not public and whose authorization header is absent
\* or yields no bearer token is rejected with 401, with no introspection call and no
\* call of next.
C3_NoTokenRejects401 ==
  (pc \in MwHandled /\ ~PathIsPublic /\ NoBearerToken) =>
    /\ pc = "mw_done"
    /\ rejections = <<UNAUTHORIZED>>
    /\ res = [statusCode |-> UNAUTHORIZED, ended |-> TRUE]
    /\ tokenInfoCalls = <<>>
    /\ infoPromise = NotStarted
    /\ nextCalls = 0

\* a request with a malformed authorization header on a path that is not public has
\* been rejected
C3_Witness ==
  /\ pc = "mw_done"
  /\ ~PathIsPublic
  /\ NoBearerToken
  /\ HasProp(reqAtEntry.headers, AUTHORIZATION_HEADER_FIELD_NAME)
  /\ rejections = <<UNAUTHORIZED>>

\* C4: a request whose path matches a public pattern makes the middleware call next
\* exactly once, with no token extracted, no introspection call and no rejection,
\* whatever its authorization header.
C4_PublicPathBypasses ==
  (pc \in MwHandled /\ PathIsPublic) =>
    /\ pc = "mw_done"
    /\ nextCalls = 1
    /\ extractCalls = 0
    /\ tokenInfoCalls = <<>>
    /\ infoPromise = NotStarted
    /\ rejections = <<>>
    /\ ~res.ended

\* a request without a bearer token, matching the second of two public patterns, has
\* been passed on
C4_Witness ==
  /\ pc = "mw_done"
  /\ PathIsPublic
  /\ NoBearerToken
  /\ Len(mwOptions.publicEndpoints.v) = 2
  /\ ~IsPrefix(mwOptions.publicEndpoints.v[1], reqAtEntry.originalUrl)
  /\ nextCalls = 1

RequiredSet == IF required.some THEN {required.v[i] : i \in DOMAIN required.v} ELSE {}
GrantedSet ==
  IF reqAtEntry.scopes.some
  THEN {reqAtEntry.scopes.v[i] : i \in DOMAIN reqAtEntry.scopes.v}
  ELSE {}

\* C5: the scope middleware calls next if and only if every required scope is among
\* the scopes attached to the request (none when nothing is attached), rejects with
\* 403 otherwise, never does both, and leaves the attached scopes as they were.
C5_ScopesContainment ==
  pc = "scopes_done" =>
    /\ (nextCalls = 1 /\ rejections = <<>>) <=> (RequiredSet \subseteq GrantedSet)
    /\ (nextCalls = 0 /\ rejections = <<FORBIDDEN>>) <=> ~(RequiredSet \subseteq GrantedSet)
    /\ req.scopes = reqAtEntry.scopes

\* a request that holds one of two required scopes has been rejected
C5_Witness ==
  /\ pc = "scopes_done"
  /\ RequiredSet \cap GrantedSet # {}
  /\ ~(RequiredSet \subseteq GrantedSet)
  /\ rejections = <<FORBIDDEN>>

TokenCalled == TokenPcs \cup {"token_thrown"}

\* C6: a call of getAccessToken whose grantType is neither of the two grants fails,
\* and no request to the token endpoint is issued.
C6_InvalidGrantNoRequest ==
  (pc \in TokenCalled /\ ~Recognized(tokenOptions)) =>
    /\ posts = <<>>
    /\ tokenPromise.state # "fulfilled"
    /\ pc # "token_posting"
    /\ pc = "token_done" => tokenPromise.state = "rejected"
    /\ pc = "token_thrown" => syncThrow.some

\* a call with an unrecognized grantType got as far as the credentials and failed there
C6_Witness ==
  /\ pc = "token_done"
  /\ tokenOptions.grantType = Some("implicit")
  /\ tokenPromise = Rejected(TypeError("invalid grantType"))
  /\ posts = <<>>

C8_BecomesUndefined ==
  ( /\ pc = "token_done"
    /\ tokenResponse.some
    /\ tokenResponse.v.kind = "response"
    /\ tokenResponse.v.status = UNAUTHORIZED ) =>
    bearer = Fulfilled(Undefined)

\* C9: the POST is issued only after both credential reads have completed
\* successfully; once a read has failed no POST is issued and the returned promise
\* is rejected.
C9_PostAfterBothReads ==
  /\ posts # <<>> => (userRead.state = "fulfilled" /\ clientRead.state = "fulfilled")
  /\ pc = "token_posting" => posts # <<>>
  /\ (userRead.state = "rejected" \/ clientRead.state = "rejected") =>
       /\ posts = <<>>
       /\ allPromise.state = "rejected"
       /\ tokenPromise.state \in {"pending", "rejected"}
       /\ pc = "token_done" => tokenPromise.state = "rejected"

\* the read of client.json failed after the read of user.json succeeded, and the
\* call was rejected with the read's error
C9_Witness ==
  /\ pc = "token_done"
  /\ userRead.state = "fulfilled"
  /\ clientRead = Rejected(FileError)
  /\ tokenPromise = Rejected(FileError)
  /\ posts = <<>>

\* C10: a request whose handling has ended was either passed on once or rejected
\* once, never both, also when next throws after a successful introspection.
C10_ExactlyOneOutcome ==
  pc = "mw_done" => nextCalls + Len(rejections) = 1

====
